---------------------------- MODULE Spec2Model ----------------------------
(***************************************************************************)
(* A model of backend.py, the Flask backend of the Think Tank document     *)
(* assistant: the four POST handlers (chat, upload_and_ask, extract_text,  *)
(* followup_chat), the module-level configuration they read, and the       *)
(* external services they call (blob storage, SAS signing, Document        *)
(* Intelligence, the completion service).                                  *)
(*                                                                         *)
(* A text is a sequence of tokens (a token is a line or a word of the      *)
(* Python string); string concatenation and f-string substitution are      *)
(* sequence concatenation, str.join is Join below.                         *)
(*                                                                         *)
(* Every request is handled by a thread of its own (Flask's server is      *)
(* threaded).  chat and followup_chat share nothing with other requests    *)
(* and are one action each; upload_and_ask and extract_text write and read *)
(* the blob container, so they are cut into one action per step of their   *)
(* pipeline and the steps of different requests interleave.  An external   *)
(* call either returns or raises; which one is the environment's choice.   *)
(***************************************************************************)
EXTENDS Integers, Sequences, FiniteSets, TLC

\* ------------------------------------------------------------------ bounds

\* Number of requests in flight over a run.
NReq == 2
\* The clock (in minutes) runs from 0 to MaxClock.
MaxClock == 1
\* Longest chat history a follow-up request carries.
MaxHist == 2

Reqs == 1 .. NReq

\* ------------------------------------------------------------- text helpers

\* Whether the token sequence `part` occurs contiguously in `text`.
Contains(text, part) ==
    \E i \in 1 .. (Len(text) - Len(part) + 1) :
        SubSeq(text, i, i + Len(part) - 1) = part

\* Whether the line `line` is one of the lines of `text`.
HasLine(text, line) == \E i \in 1 .. Len(text) : text[i] = line

\* " ".join(parts) with every separator dropped.
RECURSIVE JoinNoSeparator(_)
JoinNoSeparator(parts) ==
    IF parts = <<>> THEN <<>>
    ELSE Head(parts) \o JoinNoSeparator(Tail(parts))

\* " ".join(parts): the parts in order, one " " between two neighbours.
RECURSIVE Join(_)
Join(parts) ==
    IF parts = <<>> THEN <<>>
    ELSE IF Len(parts) = 1 THEN Head(parts)
    ELSE Head(parts) \o <<" ">> \o Join(Tail(parts))

\* ----------------------------------------------------------- configuration

\* The three settings of the Cognitive Search data source.
SearchSettings == {"AZURE_SEARCH_ENDPOINT", "AZURE_SEARCH_KEY", "AZURE_SEARCH_INDEX"}

\* What os.getenv(name) gives: a value ("set"), or none ("absent": None for
\* a variable that is not set, "" for one set to nothing).
EnvValues == {"absent", "set"}

\* timedelta(minutes=10), the lifetime of a SAS token.
SasMinutes == 10


\* ------------------------------------------------------------ prompt texts

\* The missing-section sentence both instruction blocks carry.
MissingSectionLine ==
    "If any section is missing, respond with: \"This document does not contain information on [Missing Section].\""

\* chatbot_query's prompt: the f-string with user_input substituted in.
ChatPrompt(user_input) ==
    << "You are an AI assistant helping users engage with business documents.",
       "User query: " >> \o user_input \o
    << "Always provide specific, relevant information",
       "First, give a general summary(Include scope & purpose). Then extract , focus on these:",
       "- Technology Specs",
       "- Problem being addressed",
       "-User numbers and deployment scale",
       "-Current systems and pain points",
       "- Action Items for proposal team",
       "- Required integrations",
       "- If suggesting BOM items, explain why they match the requirements",
       MissingSectionLine,
       "Respond clearly and conversationally." >>

\* The messages chatbot_query hands to the completion service.
ChatMessages(user_input) ==
    << [role |-> "system", content |-> <<"You answer using Azure Cognitive Search.">>],
       [role |-> "user", content |-> ChatPrompt(user_input)] >>

\* followup_chat's instruction block with its last two bullets lost.
PromptIntroWithoutTail ==
    << "You are an AI assistant analyzing uploaded business documents.",
       "First, summarize key content(include problem trying to solve/address). Then extract:",
       "- Technology Specs",
       "-User numbers and deployment scale",
       "-Current systems and pain points",
       "- Action Items for proposal team",
       "- Required integrations",
       "- If suggesting BOM items, explain why they match the requirements",
       MissingSectionLine,
       "Respond clearly and conversationally." >>

\* followup_chat's instruction block, prompt_intro.
PromptIntro ==
    << "You are an AI assistant analyzing uploaded business documents.",
       "First, summarize key content(include problem trying to solve/address). Then extract:",
       "- Technology Specs",
       "-User numbers and deployment scale",
       "-Current systems and pain points",
       "- Action Items for proposal team",
       "- Required integrations",
       "- If suggesting BOM items, explain why they match the requirements",
       "- Compliance requirements",
       "-conclusive summary",
       MissingSectionLine,
       "Respond clearly and conversationally." >>

\* followup_chat's messages with the document put after the history.
FollowupMessagesDocLast(doc_text, chat_history) ==
    << [role |-> "system", content |-> PromptIntro] >> \o chat_history \o
    << [role |-> "system", content |-> doc_text] >>

\* followup_chat's messages: the two system turns, then chat_history.
FollowupMessages(doc_text, chat_history) ==
    << [role |-> "system", content |-> PromptIntro],
       [role |-> "system", content |-> doc_text] >> \o chat_history

\* The text upload_and_ask puts in its prompt when no paragraph came back.
Sentinel == <<"No content found">>

\* upload_and_ask's full_text: the paragraphs joined, or the sentinel.
FullText(paragraphs) ==
    IF paragraphs # <<>> THEN Join(paragraphs) ELSE Sentinel

\* upload_and_ask's prompt: the f-string with full_text and user_question.
UploadPrompt(full_text, user_question) ==
    <<"The user uploaded this document:">> \o full_text \o
    <<"They asked:">> \o user_question \o
    <<"Please answer using only the document's contents.">>

\* The messages upload_and_ask hands to the completion service.
UploadMessages(full_text, user_question) ==
    << [role |-> "system", content |-> <<"You are an AI document assistant.">>],
       [role |-> "user", content |-> UploadPrompt(full_text, user_question)] >>

\* -------------------------------------------------------------- responses

\* jsonify({"error": str(e)}), 500: the except clause of the three handlers.
ErrorResponse(msg) == [status |-> 500, kind |-> "error", body |-> msg]

\* jsonify({"answer": ...}) of upload_and_ask and followup_chat.
AnswerResponse(text) == [status |-> 200, kind |-> "answer", body |-> text]

\* jsonify({"response": response_text}) of chat.
ChatResponse(text) == [status |-> 200, kind |-> "response", body |-> text]

\* chatbot_query's except clause: the error as the response text.
ChatErrorText(msg) == <<"Error retrieving insights: ">> \o msg

\* An exception that leaves the handler: the framework answers, with its own
\* error page and not with a payload of the handler.
FaultResponse(status, msg) == [status |-> status, kind |-> "fault", body |-> msg]

\* extract_text's ending with the paragraphs joined without the separator.
ExtractTextResponseNoSeparator(paragraphs) ==
    IF paragraphs = <<>>
    THEN [status |-> 400, kind |-> "error", body |-> <<"No text extracted from document">>]
    ELSE [status |-> 200, kind |-> "text", body |-> JoinNoSeparator(paragraphs)]

\* extract_text's ending: 400 when result.paragraphs is empty (or None),
\* else the text.
ExtractTextResponse(paragraphs) ==
    IF paragraphs = <<>>
    THEN [status |-> 400, kind |-> "error", body |-> <<"No text extracted from document">>]
    ELSE [status |-> 200, kind |-> "text", body |-> Join(paragraphs)]

\* The handler's next position after its except clause ran, were it to run
\* the failed step again.
AfterFailureRetry(step) == step

\* The handler's next position after its except clause ran: it returned.
AfterFailure(step) == "done"

\* ------------------------------------------------- storage keys and grants

\* The values uuid.uuid4() returns.  uuid4 is taken to return a value it has
\* not returned before: the call made for request r returns the r-th value.
UuidPool == <<"uuid-1", "uuid-2", "uuid-3", "uuid-4">>

\* uuid.uuid4() as called by the handler of request r.
Uuid4(r) == UuidPool[r]

\* The blob name with the uuid left out.
StorageKeyNameOnly(uuid, filename) == filename

\* filename = f"{uuid.uuid4()}_{file.filename}".
StorageKey(uuid, filename) == <<uuid, "_">> \o filename

\* A SAS token that expires the moment it is issued.
MakeGrantNoLifetime(blob_name, now) ==
    [blob |-> blob_name, permission |-> {"read"}, issuedAt |-> now, expiresAt |-> now]

\* generate_blob_sas(blob_name=filename, permission=BlobSasPermissions(read=True),
\* expiry=datetime.utcnow() + timedelta(minutes=10)).
MakeGrant(blob_name, now) ==
    [blob |-> blob_name, permission |-> {"read"}, issuedAt |-> now,
     expiresAt |-> now + SasMinutes]

\* --------------------------------------------------------------- services

\* The documents a client uploads, by what Document Intelligence finds in them.
Docs == {"blank", "two"}

\* result.paragraphs (each paragraph's content) for a document.
Paragraphs(doc) ==
    CASE doc = "blank" -> <<>>
      [] doc = "two"   -> << <<"Budget: $500k.">>, <<"No compliance info.">> >>

\* response.choices[0].message.content of a completion that succeeded.
Answer == <<"answer">>

\* str(e) of the exception a step raises.
ExcMessage(step) == <<step, " failed">>

\* ------------------------------------------------------------------ state

VARIABLES
    env,        \* the search settings as os.getenv returned them at import
    proc,       \* the process: "starting", "running" or "crashed"
    clock,      \* datetime.utcnow(), in minutes
    store,      \* the blob container: a set of [key, owner, doc]
    ep,         \* per request: the endpoint it was sent to ("none" before)
    pc,         \* per request: the handler's position
    upl,        \* per request: the multipart form (file and question)
    js,         \* per request: the JSON body
    key,        \* per request: filename, the blob name (<<>> before)
    grants,     \* per request: the SAS tokens issued, in order
    submitted,  \* per request: the SAS tokens handed to begin_analyze_document_from_url
    result,     \* per request: <<result.paragraphs>> once poller.result() returned
    readOwner,  \* per request: the request whose upload the analysis read (0: none)
    sent,       \* per request: the messages handed to the completion service
    binding,    \* per request: <<extension_config's parameters>> once dispatched
    calls,      \* per request: the steps run, in order
    raised,     \* per request: <<[step, msg]>> once a step raised
    resp        \* per request: the responses returned, in order

vars == << env, proc, clock, store, ep, pc, upl, js, key, grants,
           submitted, result, readOwner, sent, binding, calls, raised, resp >>

uploadVars == << store, key, grants, submitted, result, readOwner >>

\* The file names clients upload under.
FileNames == { <<"report.pdf">> }

\* The question field of upload_and_ask.
Questions == { <<"What is the budget?">> }

NoForm ==
    [hasFile |-> FALSE, name |-> <<>>, doc |-> "blank",
     hasQuestion |-> FALSE, question |-> <<>>]

\* The multipart forms a client sends: with or without the file, with or
\* without the question.
Forms ==
    { [hasFile |-> FALSE, name |-> <<>>, doc |-> "blank",
       hasQuestion |-> hq, question |-> IF hq THEN q ELSE <<>>] :
         hq \in BOOLEAN, q \in Questions }
    \cup
    { [hasFile |-> TRUE, name |-> n, doc |-> d,
       hasQuestion |-> hq, question |-> IF hq THEN q ELSE <<>>] :
         n \in FileNames, d \in Docs, hq \in BOOLEAN, q \in Questions }

NoJson ==
    [kind |-> "none", hasMessage |-> FALSE, message |-> <<>>,
     hasDoc |-> FALSE, doc |-> <<>>, hasHistory |-> FALSE, history |-> <<>>]

\* The state of the requests before any arrived.
InitRequests ==
    /\ clock = 0
    /\ store = {}
    /\ ep = [r \in Reqs |-> "none"]
    /\ pc = [r \in Reqs |-> "idle"]
    /\ upl = [r \in Reqs |-> NoForm]
    /\ js = [r \in Reqs |-> NoJson]
    /\ key = [r \in Reqs |-> <<>>]
    /\ grants = [r \in Reqs |-> <<>>]
    /\ submitted = [r \in Reqs |-> <<>>]
    /\ result = [r \in Reqs |-> <<>>]
    /\ readOwner = [r \in Reqs |-> 0]
    /\ sent = [r \in Reqs |-> <<>>]
    /\ binding = [r \in Reqs |-> <<>>]
    /\ calls = [r \in Reqs |-> <<>>]
    /\ raised = [r \in Reqs |-> <<>>]
    /\ resp = [r \in Reqs |-> <<>>]

\* ------------------------------------------------------- the except clause

\* `step` of request r raised inside the handler's try block: the except
\* clause returns the error payload.
Raise(r, step) ==
    /\ calls' = [calls EXCEPT ![r] = Append(@, step)]
    /\ raised' = [raised EXCEPT ![r] = << [step |-> step, msg |-> ExcMessage(step)] >>]
    /\ resp' = [resp EXCEPT ![r] = Append(@, ErrorResponse(ExcMessage(step)))]
    /\ pc' = [pc EXCEPT ![r] = AfterFailure(pc[r])]

\* `step` of request r returned; the handler goes on at `next`.
Return(r, step, next) ==
    /\ calls' = [calls EXCEPT ![r] = Append(@, step)]
    /\ pc' = [pc EXCEPT ![r] = next]
    /\ UNCHANGED << raised, resp >>

\* ------------------------------------------------------------------- time

Tick ==
    /\ clock < MaxClock
    /\ clock' = clock + 1
    /\ UNCHANGED << env, proc, store, ep, pc, upl, js, key, grants,
                    submitted, result, readOwner, sent, binding, calls, raised, resp >>

\* ------------------------------------------ upload_and_ask and extract_text

UploadEndpoints == {"upload_and_ask", "extract_text"}

\* A request arrives at upload_and_ask or extract_text.  The handler reads
\* request.files["file"] and, in upload_and_ask, request.form["question"].
ReadForm(r) ==
    /\ proc = "running"
    /\ pc[r] = "idle"
    /\ \E e \in UploadEndpoints, f \in Forms :
          /\ e = "extract_text" => ~f.hasQuestion
          /\ ep' = [ep EXCEPT ![r] = e]
          /\ upl' = [upl EXCEPT ![r] = f]
          /\ IF ~f.hasFile
             THEN Raise(r, "request.files")
             ELSE IF e = "upload_and_ask" /\ ~f.hasQuestion
             THEN Raise(r, "request.form")
             ELSE Return(r, IF e = "upload_and_ask" THEN "request.form"
                                                    ELSE "request.files", "upload")
    /\ UNCHANGED << env, proc, clock, js, sent, binding >>
    /\ UNCHANGED uploadVars

\* filename = f"{uuid.uuid4()}_{file.filename}"; upload_blob(file, overwrite=True).
UploadBlob(r) ==
    /\ pc[r] = "upload"
    /\ LET k == StorageKey(Uuid4(r), upl[r].name) IN
          /\ key' = [key EXCEPT ![r] = k]
          /\ \/ /\ store' = { b \in store : b.key # k }
                             \cup { [key |-> k, owner |-> r, doc |-> upl[r].doc] }
                /\ Return(r, "upload_blob", "sas")
             \/ /\ store' = store
                /\ Raise(r, "upload_blob")
    /\ UNCHANGED << env, proc, clock, ep, upl, js, sent, binding,
                    grants, submitted, result, readOwner >>

\* generate_blob_sas(...): the read-only token for the blob just uploaded.
IssueSas(r) ==
    /\ pc[r] = "sas"
    /\ \/ /\ grants' = [grants EXCEPT ![r] = Append(@, MakeGrant(key[r], clock))]
          /\ Return(r, "generate_blob_sas", "begin")
       \/ /\ grants' = grants
          /\ Raise(r, "generate_blob_sas")
    /\ UNCHANGED << env, proc, clock, ep, upl, js, sent, binding,
                    store, key, submitted, result, readOwner >>

\* doc_client.begin_analyze_document_from_url("prebuilt-document", sas_url).
BeginAnalyze(r) ==
    /\ pc[r] = "begin"
    /\ submitted' = [submitted EXCEPT ![r] = Append(@, grants[r][Len(grants[r])])]
    /\ \/ Return(r, "begin_analyze", "result")
       \/ Raise(r, "begin_analyze")
    /\ UNCHANGED << env, proc, clock, ep, upl, js, sent, binding,
                    store, key, grants, result, readOwner >>

\* The rest of extract_text / the next step of upload_and_ask once
\* poller.result() returned `paragraphs`.
AfterResult(r, paragraphs) ==
    IF ep[r] = "extract_text"
    THEN /\ calls' = [calls EXCEPT ![r] = Append(@, "poller.result")]
         /\ resp' = [resp EXCEPT ![r] = Append(@, ExtractTextResponse(paragraphs))]
         /\ pc' = [pc EXCEPT ![r] = "done"]
         /\ raised' = raised
    ELSE Return(r, "poller.result", "complete")

\* poller.result(): blocks until the analysis of the blob behind the SAS URL
\* ended.  The service reads the blob with the token, which must not have
\* expired.
PollerResult(r) ==
    /\ pc[r] = "result"
    /\ LET g == submitted[r][Len(submitted[r])] IN
          \/ /\ clock < g.expiresAt
             /\ \E b \in store :
                   /\ b.key = g.blob
                   /\ readOwner' = [readOwner EXCEPT ![r] = b.owner]
                   /\ result' = [result EXCEPT ![r] = << Paragraphs(b.doc) >>]
                   /\ AfterResult(r, Paragraphs(b.doc))
          \/ /\ UNCHANGED << readOwner, result >>
             /\ Raise(r, "poller.result")
    /\ UNCHANGED << env, proc, clock, ep, upl, js, sent, binding,
                    store, key, grants, submitted >>

\* upload_and_ask: the prompt and client.chat.completions.create(...).
CompleteUpload(r) ==
    /\ pc[r] = "complete"
    /\ ep[r] = "upload_and_ask"
    /\ sent' = [sent EXCEPT ![r] =
                  UploadMessages(FullText(result[r][1]), upl[r].question)]
    /\ \/ /\ calls' = [calls EXCEPT ![r] = Append(@, "completion")]
          /\ resp' = [resp EXCEPT ![r] = Append(@, AnswerResponse(Answer))]
          /\ pc' = [pc EXCEPT ![r] = "done"]
          /\ raised' = raised
       \/ Raise(r, "completion")
    /\ UNCHANGED << env, proc, clock, ep, upl, js, binding >>
    /\ UNCHANGED uploadVars

\* The process after import with every setting present; no request yet.
InitUpload ==
    /\ env = [s \in SearchSettings |-> "set"]
    /\ proc = "running"
    /\ InitRequests

NextUpload ==
    \/ Tick
    \/ \E r \in Reqs :
          \/ ReadForm(r)
          \/ UploadBlob(r)
          \/ IssueSas(r)
          \/ BeginAnalyze(r)
          \/ PollerResult(r)
          \/ CompleteUpload(r)

\* The upload endpoints: upload_and_ask and extract_text.
SpecUpload == InitUpload /\ [][NextUpload]_vars

\* ------------------------------------------------------------ process start

\* Whether a setting has a value: os.getenv gave a non-empty string.
Present(s) == env[s] = "set"

\* The module's top level (lines 20-66): the settings are read with
\* os.getenv and the clients are built from them.  Nothing in the module
\* checks that a setting has a value.  A setting without one is either unset
\* (None) or set to the empty string; a client constructor may refuse None,
\* which ends the import, and takes the empty string.
StartProcess ==
    /\ proc = "starting"
    /\ \/ proc' = "running"
       \/ /\ \E s \in SearchSettings : ~Present(s)
          /\ proc' = "crashed"
    /\ UNCHANGED << env, clock, store, ep, pc, upl, js, key, grants,
                    submitted, result, readOwner, sent, binding, calls, raised, resp >>

\* ------------------------------------------------------------------- chat

\* The message field of a chat body.
Messages == { <<"Summarize the proposal">> }

\* The bodies a client posts to chat: not JSON at all, JSON that is no
\* object (null), an object without "message", an object with it.
ChatBodies ==
    { [NoJson EXCEPT !.kind = "notjson"],
      [NoJson EXCEPT !.kind = "null"],
      [NoJson EXCEPT !.kind = "object"] }
    \cup
    { [NoJson EXCEPT !.kind = "object", !.hasMessage = TRUE, !.message = m] :
        m \in Messages }

\* An exception raised outside every try block leaves the handler.
Escape(r, step, status) ==
    /\ calls' = [calls EXCEPT ![r] = Append(@, step)]
    /\ raised' = [raised EXCEPT ![r] = << [step |-> step, msg |-> ExcMessage(step)] >>]
    /\ resp' = [resp EXCEPT ![r] = Append(@, FaultResponse(status, ExcMessage(step)))]
    /\ pc' = [pc EXCEPT ![r] = "done"]

\* request.json.get("message", "").
UserInput(body) == IF body.hasMessage THEN body.message ELSE <<>>

\* extension_config's parameters: the settings as read at import.
ExtensionParameters ==
    [endpoint  |-> env["AZURE_SEARCH_ENDPOINT"],
     key       |-> env["AZURE_SEARCH_KEY"],
     indexName |-> env["AZURE_SEARCH_INDEX"]]

\* chatbot_query(user_input): client_with_extensions.chat.completions
\* .create(...) in its try block; the answer or, when the call raised, the
\* error text is what chat returns as jsonify({"response": response_text}).
ChatbotQuery(r, user_input) ==
    /\ binding' = [binding EXCEPT ![r] = << ExtensionParameters >>]
    /\ sent' = [sent EXCEPT ![r] = ChatMessages(user_input)]
    /\ calls' = [calls EXCEPT ![r] = @ \o <<"request.json.get", "completion">>]
    /\ pc' = [pc EXCEPT ![r] = "done"]
    /\ \/ /\ resp' = [resp EXCEPT ![r] = Append(@, ChatResponse(Answer))]
          /\ raised' = raised
       \/ /\ resp' = [resp EXCEPT ![r] =
                        Append(@, ChatResponse(ChatErrorText(ExcMessage("completion"))))]
          /\ raised' = [raised EXCEPT ![r] =
                          << [step |-> "completion", msg |-> ExcMessage("completion")] >>]

\* chat: user_input = request.json.get("message", ""), outside any try
\* block (request.json raises for a body that is not JSON, and None has no
\* get), then chatbot_query(user_input).
Chat(r) ==
    /\ proc = "running"
    /\ pc[r] = "idle"
    /\ ep' = [ep EXCEPT ![r] = "chat"]
    /\ \E b \in ChatBodies :
          /\ js' = [js EXCEPT ![r] = b]
          /\ IF b.kind = "notjson"
             THEN Escape(r, "request.json", 400) /\ UNCHANGED << binding, sent >>
             ELSE IF b.kind = "null"
             THEN Escape(r, "request.json.get", 500) /\ UNCHANGED << binding, sent >>
             ELSE ChatbotQuery(r, UserInput(b))
    /\ UNCHANGED << env, proc, clock, upl >>
    /\ UNCHANGED uploadVars

\* ---------------------------------------------------------- followup_chat

\* The turns a history is made of.
TurnPool ==
    { [role |-> "user", content |-> <<"A">>],
      [role |-> "assistant", content |-> <<"B">>] }

\* Every history of at most MaxHist turns.
Histories == UNION { [1 .. n -> TurnPool] : n \in 0 .. MaxHist }

\* The document bodies a follow-up carries.
DocTexts == { <<"Budget: $500k.", " ", "No compliance info.">> }

\* The bodies a client posts to followup_chat: not JSON, an object without
\* "doc", one without "history", one with both.
FollowupBodies ==
    { [NoJson EXCEPT !.kind = "notjson"],
      [NoJson EXCEPT !.kind = "object", !.hasHistory = TRUE],
      [NoJson EXCEPT !.kind = "object", !.hasDoc = TRUE] }
    \cup
    { [NoJson EXCEPT !.kind = "object", !.hasDoc = TRUE, !.doc = d,
                     !.hasHistory = TRUE, !.history = h] :
        d \in DocTexts, h \in Histories }

\* followup_chat, its whole body inside the try block: data =
\* request.get_json(); data["doc"]; data["history"]; messages = [...] +
\* chat_history; client.chat.completions.create(messages=messages).
FollowupChat(r) ==
    /\ proc = "running"
    /\ pc[r] = "idle"
    /\ ep' = [ep EXCEPT ![r] = "followup_chat"]
    /\ \E b \in FollowupBodies :
          /\ js' = [js EXCEPT ![r] = b]
          /\ IF b.kind = "notjson"
             THEN Raise(r, "request.get_json") /\ sent' = sent
             ELSE IF ~b.hasDoc
             THEN Raise(r, "data[doc]") /\ sent' = sent
             ELSE IF ~b.hasHistory
             THEN Raise(r, "data[history]") /\ sent' = sent
             ELSE /\ sent' = [sent EXCEPT ![r] = FollowupMessages(b.doc, b.history)]
                  /\ \/ /\ calls' = [calls EXCEPT ![r] = Append(@, "completion")]
                        /\ resp' = [resp EXCEPT ![r] = Append(@, AnswerResponse(Answer))]
                        /\ pc' = [pc EXCEPT ![r] = "done"]
                        /\ raised' = raised
                     \/ Raise(r, "completion")
    /\ UNCHANGED << env, proc, clock, upl, binding >>
    /\ UNCHANGED uploadVars

\* The process before import: the settings are whatever the environment
\* holds.
InitChat ==
    /\ env \in [SearchSettings -> EnvValues]
    /\ proc = "starting"
    /\ InitRequests

NextChat ==
    \/ StartProcess
    \/ \E r \in Reqs :
          \/ Chat(r)
          \/ FollowupChat(r)

\* The JSON endpoints: chat and followup_chat, from process start.
SpecChat == InitChat /\ [][NextChat]_vars

\* ------------------------------------------------------------ properties

Done(r) == pc[r] = "done"

\* The payload shapes the handlers themselves return.
StructuredKinds == {"response", "answer", "text", "error"}

\* C1: chat never throws to its caller: whatever the body and whatever the
\* completion service does, a chat request that ended was answered with one
\* {response: string} payload.
C1_ChatAlwaysAnswersWithResponse ==
    \A r \in Reqs :
        (ep[r] = "chat" /\ Done(r)) =>
            /\ Len(resp[r]) = 1
            /\ resp[r][1].kind = "response"

\* C2: every request to any of the four endpoints ends with exactly one
\* terminal structured response (a success shape or an error shape of the
\* handler), never with anything else.
C2_EveryRequestEndsStructured ==
    \A r \in Reqs :
        Done(r) =>
            /\ Len(resp[r]) = 1
            /\ resp[r][1].kind \in StructuredKinds

\* C3: in upload_and_ask, when the extraction completed with zero paragraphs,
\* the completion service is never invoked with the sentinel text in the
\* prompt.
C3_SentinelNeverInPrompt ==
    \A r \in Reqs :
        (ep[r] = "upload_and_ask" /\ result[r] = << <<>> >>) =>
            \A i \in 1 .. Len(sent[r]) : ~Contains(sent[r][i].content, Sentinel)

\* The place of a step in upload_and_ask's pipeline.
PipelineIndex(step) ==
    CASE step \in {"request.files", "request.form"} -> 1
      [] step = "upload_blob"       -> 2
      [] step = "generate_blob_sas" -> 3
      [] step = "begin_analyze"     -> 4
      [] step = "poller.result"     -> 5
      [] step = "completion"        -> 6

\* C4: in upload_and_ask a failure raised by any step ends the request with
\* {error: message} and status 500 carrying the message of what was raised;
\* every step ran at most once and in pipeline order, the failed step is
\* the last one that ran and no later step left an effect.
C4_UploadAndAskFailureEndsRequest ==
    \A r \in Reqs :
        ep[r] = "upload_and_ask" =>
            /\ \A i \in 1 .. Len(calls[r]) : PipelineIndex(calls[r][i]) = i
            /\ raised[r] # <<>> =>
                  /\ Done(r)
                  /\ resp[r] = << [status |-> 500, kind |-> "error",
                                   body |-> raised[r][1].msg] >>
                  /\ calls[r][Len(calls[r])] = raised[r][1].step
                  /\ LET failedAt == PipelineIndex(raised[r][1].step) IN
                        /\ failedAt <= 1 => key[r] = <<>>
                        /\ failedAt <= 2 => ~(\E b \in store : b.owner = r)
                        /\ failedAt <= 3 => (grants[r] = <<>> /\ submitted[r] = <<>>)
                        /\ failedAt <= 5 => (result[r] = <<>> /\ sent[r] = <<>>)

\* C4's case: an upload_and_ask request whose extraction raised.
C4_Witness ==
    \E r \in Reqs :
        /\ ep[r] = "upload_and_ask"
        /\ Done(r)
        /\ raised[r] # <<>>
        /\ raised[r][1].step = "poller.result"

\* The first n of the paragraphs `ps`, one " " between two neighbours.
RECURSIVE SpacedConcat(_, _)
SpacedConcat(ps, n) ==
    IF n = 0 THEN <<>>
    ELSE IF n = 1 THEN ps[1]
    ELSE SpacedConcat(ps, n - 1) \o <<" ">> \o ps[n]

\* C5: extract_text has three mutually exclusive outcomes: 400 with an error
\* payload exactly when the extraction completed with zero paragraphs, the
\* text (the paragraphs in order, one space between) exactly when it
\* completed with at least one, 500 with an error payload exactly when a
\* step raised.
C5_ExtractTextOutcomes ==
    \A r \in Reqs :
        (ep[r] = "extract_text" /\ Done(r)) =>
            /\ Len(resp[r]) = 1
            /\ LET R == resp[r][1]
                   completed == result[r] # <<>>
                   P == result[r][1]
               IN  /\ R.status \in {200, 400, 500}
                   /\ R.status = 400 <=> (completed /\ P = <<>>)
                   /\ R.status = 200 <=> (completed /\ Len(P) >= 1)
                   /\ R.status = 500 <=> raised[r] # <<>>
                   /\ R.status = 400 => R.kind = "error"
                   /\ R.status = 500 => R.kind = "error"
                   /\ R.status = 200 =>
                         /\ R.kind = "text"
                         /\ R.body = SpacedConcat(P, Len(P))

\* C5's case: extract_text answered the text of a two-paragraph document.
C5_Witness ==
    \E r \in Reqs :
        /\ ep[r] = "extract_text"
        /\ Done(r)
        /\ result[r] # <<>>
        /\ Len(result[r][1]) = 2
        /\ resp[r][1].status = 200

\* C6: the turns a follow-up hands to the completion service are the
\* instruction block, the document, then the history turn for turn; and
\* composing with a history appended in two batches gives what composing
\* with the first batch and appending the second gives.
C6_FollowupReplaysHistory ==
    \A r \in Reqs :
        (ep[r] = "followup_chat" /\ sent[r] # <<>>) =>
            LET m == sent[r]
                h == js[r].history
                d == js[r].doc
            IN  /\ Len(m) = 2 + Len(h)
                /\ m[1] = [role |-> "system", content |-> PromptIntro]
                /\ m[2] = [role |-> "system", content |-> d]
                /\ \A i \in 1 .. Len(h) : m[i + 2] = h[i]
                /\ \A k \in 0 .. Len(h) :
                      m = FollowupMessages(d, SubSeq(h, 1, k)) \o SubSeq(h, k + 1, Len(h))

\* C6's case: a follow-up with a history of two turns reached the completion
\* service.
C6_Witness ==
    \E r \in Reqs :
        /\ ep[r] = "followup_chat"
        /\ Len(js[r].history) = 2
        /\ Len(sent[r]) = 4

\* C7: a chat completion request is never dispatched with the search
\* endpoint, key or index name absent.
C7_BindingWellFormedAtDispatch ==
    \A r \in Reqs :
        binding[r] # <<>> =>
            /\ binding[r][1].endpoint = "set"
            /\ binding[r][1].key = "set"
            /\ binding[r][1].indexName = "set"

\* C8: every grant is read-only, names the blob its own request uploaded and
\* expires SasMinutes after it was issued; a request issues at most one
\* grant and exactly one once past generate_blob_sas; a grant is submitted
\* to the extraction at most once, only by its own request, and exactly once
\* by the time the request ended.
C8_GrantsReadOnlyShortLivedUsedOnce ==
    \A r \in Reqs :
        /\ Len(grants[r]) <= 1
        /\ \A i \in 1 .. Len(grants[r]) :
              LET g == grants[r][i] IN
                 /\ g.permission = {"read"}
                 /\ g.blob = key[r]
                 /\ \E b \in store : b.key = g.blob /\ b.owner = r
                 /\ g.issuedAt <= clock
                 /\ g.expiresAt = g.issuedAt + 10
                 /\ g.expiresAt > g.issuedAt
        /\ (pc[r] \in {"begin", "result", "complete"} \/ (Done(r) /\ resp[r][1].status # 500))
              => (ep[r] \in UploadEndpoints => Len(grants[r]) = 1)
        /\ Len(submitted[r]) <= Len(grants[r])
        /\ \A i \in 1 .. Len(submitted[r]) : submitted[r][i] = grants[r][1]
        /\ (Done(r) /\ grants[r] # <<>>) => Len(submitted[r]) = 1
        /\ \A q \in Reqs \ {r} :
              \A i \in 1 .. Len(submitted[q]) :
                 \A j \in 1 .. Len(grants[r]) : submitted[q][i].blob # grants[r][j].blob

\* C8's case: a request that ended after its grant, issued at minute 1, was
\* submitted to the extraction.
C8_Witness ==
    \E r \in Reqs :
        /\ Done(r)
        /\ Len(grants[r]) = 1
        /\ grants[r][1].issuedAt = 1
        /\ Len(submitted[r]) = 1
        /\ result[r] # <<>>

\* The section labels of the single-shot retrieval prompt, as its lines.
SingleShotLabelLines ==
    { "- Technology Specs",
      "- Problem being addressed",
      "-User numbers and deployment scale",
      "-Current systems and pain points",
      "- Action Items for proposal team",
      "- Required integrations",
      "- If suggesting BOM items, explain why they match the requirements" }

\* The two labels only the follow-up prompt has.
FollowupOnlyLabelLines == { "- Compliance requirements", "-conclusive summary" }

\* Whether every line of `lines` is a line of `text`.
HasLines(text, lines) == \A l \in lines : HasLine(text, l)

\* C9 as stated: the follow-up instruction block carries every label of the
\* single-shot block, and the two labels of its own.
C9_FollowupLabelsSupersetOfSingleShot ==
    \A r \in Reqs :
        (ep[r] = "followup_chat" /\ sent[r] # <<>>) =>
            HasLines(sent[r][1].content, SingleShotLabelLines \cup FollowupOnlyLabelLines)

\* C9 amended: whatever query, document or history is substituted in, the
\* single-shot prompt carries its seven labels, the follow-up instruction
\* block carries the single-shot labels other than "Problem being addressed"
\* and the two labels of its own, and both carry the missing-section
\* sentence.
C9_InstructionBlocksCarryTheirLabels ==
    \A r \in Reqs :
        /\ (ep[r] = "chat" /\ sent[r] # <<>>) =>
              /\ sent[r][2].role = "user"
              /\ HasLines(sent[r][2].content, SingleShotLabelLines)
              /\ HasLine(sent[r][2].content, MissingSectionLine)
        /\ (ep[r] = "followup_chat" /\ sent[r] # <<>>) =>
              /\ sent[r][1].role = "system"
              /\ HasLines(sent[r][1].content,
                          (SingleShotLabelLines \ {"- Problem being addressed"})
                             \cup FollowupOnlyLabelLines)
              /\ HasLine(sent[r][1].content, MissingSectionLine)

\* C9's case: a chat with a query and a follow-up with a history both
\* reached the completion service.
C9_Witness ==
    \E r, q \in Reqs :
        /\ ep[r] = "chat" /\ sent[r] # <<>> /\ js[r].hasMessage
        /\ ep[q] = "followup_chat" /\ sent[q] # <<>> /\ js[q].history # <<>>

\* Whether request r's upload_blob returned.
Uploaded(r) ==
    /\ \E i \in 1 .. Len(calls[r]) : calls[r][i] = "upload_blob"
    /\ \/ raised[r] = <<>>
       \/ raised[r][1].step # "upload_blob"

\* C10: the storage keys of any two requests differ, also for uploads under
\* the same file name; the blob a request stored stays its own, and the
\* extraction of a request reads the file that request uploaded.
C10_StorageKeysDistinct ==
    /\ \A r, q \in Reqs :
          (r # q /\ key[r] # <<>> /\ key[q] # <<>>) => key[r] # key[q]
    /\ \A r \in Reqs :
          /\ Uploaded(r) =>
                [key |-> key[r], owner |-> r, doc |-> upl[r].doc] \in store
          /\ readOwner[r] # 0 =>
                /\ readOwner[r] = r
                /\ result[r] = << Paragraphs(upl[r].doc) >>

\* C10's case: two requests uploaded different documents under one file
\* name and the extraction of one of them returned.
C10_Witness ==
    \E r, q \in Reqs :
        /\ r # q
        /\ Uploaded(r) /\ Uploaded(q)
        /\ upl[r].name = upl[q].name
        /\ upl[r].doc # upl[q].doc
        /\ readOwner[r] # 0

=============================================================================
